---- MODULE Spec2Model ----
(***************************************************************************)
(* A model of lab1.py: the synthetic KDD Cup 99 pipeline.                  *)
(*   generate_synthetic_data -> kddcup99.csv -> load_and_prepare_data      *)
(*   -> plot_top_attacks -> plot_attack_trend, under the top-level         *)
(*   try / except / finally of the __main__ block.                         *)
(*                                                                         *)
(* Python values are tagged records [t, s, n, d] so that values of         *)
(* different Python types can be compared:                                 *)
(*   int i        [t |-> "int",   n |-> i]                                 *)
(*   float n/d    [t |-> "float", n |-> n, d |-> d]   (reduced fraction)   *)
(*   str s        [t |-> "str",   s |-> s]                                 *)
(*   NaN          [t |-> "nan"]                                            *)
(* A CSV cell is a sequence of characters; an unquoted string is kept as   *)
(* one token (TLA+ strings cannot be split), a number is written digit by  *)
(* digit.                                                                  *)
(***************************************************************************)
EXTENDS Integers, Sequences, FiniteSets, TLC

VARIABLES
    pc,            \* position in the __main__ block / in the called function
    num_rows,      \* argument of generate_synthetic_data
    data,          \* generate_synthetic_data: the list of rows built so far
    file,          \* kddcup99.csv on disk: [exists, lines]
    file_before,   \* kddcup99.csv as it was when the run started
    df,            \* the table returned by load_and_prepare_data (df_processed)
    top_attacks,   \* plot_top_attacks: the Series top_attacks
    attack_trend,  \* plot_attack_trend: the Series attack_trend
    figures,       \* the charts shown so far
    log,           \* the lines printed so far
    err,           \* the exception raised, "None" when there is none
    fault,         \* whether the environment made a library call fail
    ran,           \* the stages entered so far, in order
    calls          \* number of view calls made so far

vars == << pc, num_rows, data, file, file_before, df, top_attacks, attack_trend,
           figures, log, err, fault, ran, calls >>

----------------------------------------------------------------------------
(* Bounds of the model *)

\* largest row count passed to generate_synthetic_data, longest small table
MaxRows == 3
\* random.random() is drawn from the grid k / 2^RateBits
RateBits == 3
\* most view calls made on one loaded table
MaxCalls == 2
\* most intervals of interval_size rows in a large table
MaxBlocks == 3
\* most distinct attack labels in a table
MaxAttackTypes == 11
\* most lines of a file given to load_and_prepare_data
MaxLines == 2

----------------------------------------------------------------------------
(* Module-level constants, lab1.py lines 12-32 *)

KDD_COLUMNS ==
    << "duration", "protocol_type", "service", "flag", "src_bytes", "dst_bytes",
       "land", "wrong_fragment", "urgent", "hot", "num_failed_logins", "logged_in",
       "num_compromised", "root_shell", "su_attempted", "num_root",
       "num_file_creations", "num_shells", "num_access_files", "num_outbound_cmds",
       "is_host_login", "is_guest_login", "count", "srv_count", "serror_rate",
       "srv_serror_rate", "rerror_rate", "srv_rerror_rate", "same_srv_rate",
       "diff_srv_rate", "srv_diff_host_rate", "dst_host_count",
       "dst_host_srv_count", "dst_host_same_srv_rate", "dst_host_diff_srv_rate",
       "dst_host_same_src_port_rate", "dst_host_srv_diff_host_rate",
       "dst_host_serror_rate", "dst_host_srv_serror_rate", "dst_host_rerror_rate",
       "dst_host_srv_rerror_rate", "attack_type" >>

PROTOCOLS == << "tcp", "udp", "icmp" >>
SERVICES == << "http", "ftp", "smtp", "domain_u" >>
FLAGS == << "SF", "REJ", "S0" >>
ATTACKS == << "normal.", "smurf.", "neptune.", "back.", "teardrop." >>

\* interval_size in plot_attack_trend
interval_size == 1000
\* the argument of .head() in plot_top_attacks
TopN == 10

----------------------------------------------------------------------------
(* Python values *)

RECURSIVE GCD(_, _)
GCD(a, b) == IF b = 0 THEN a ELSE GCD(b, a % b)

RECURSIVE Pow(_, _)
Pow(b, e) == IF e = 0 THEN 1 ELSE b * Pow(b, e - 1)

IntV(i) == [t |-> "int", s |-> "", n |-> i, d |-> 1]
FloatV(n, d) == LET g == GCD(n, d) IN [t |-> "float", s |-> "", n |-> n \div g, d |-> d \div g]
StrV(s) == [t |-> "str", s |-> s, n |-> 0, d |-> 1]
NaN == [t |-> "nan", s |-> "", n |-> 0, d |-> 1]

\* position of a column name in a list of column names (0 when absent)
ColIndex(columns, name) ==
    IF \E i \in 1..Len(columns) : columns[i] = name
    THEN CHOOSE i \in 1..Len(columns) : columns[i] = name
    ELSE 0

\* df[name] of one row
Field(table, row, name) == row[ColIndex(table.columns, name)]

NoTable == [columns |-> << >>, rows |-> << >>]
NoFile == [exists |-> FALSE, lines |-> << >>]

----------------------------------------------------------------------------
(* The random module.  A row's random calls are numbered in evaluation      *)
(* order (lines 44-88); a tape gives each call a level, and each function   *)
(* maps the level into its real range: lo and hi are the ends of the range. *)

Tapes == {"lo", "mid", "hi", "hilo"}

Draw(tape, i) ==
    CASE tape = "lo" -> "lo"
      [] tape = "mid" -> "mid"
      [] tape = "hi" -> "hi"
      [] tape = "hilo" -> (IF i % 2 = 0 THEN "hi" ELSE "lo")

\* random.random(): a float in [0, 1), here the numerator over 2^RateBits
RandomUnit(level) ==
    CASE level = "lo" -> 0
      [] level = "mid" -> Pow(2, RateBits) \div 2
      [] level = "hi" -> Pow(2, RateBits) - 1

random_random(level) == FloatV(RandomUnit(level), Pow(2, RateBits))

\* a randint that can return b + 1
RandintPastEnd(level, a, b) ==
    IntV(CASE level = "lo" -> a
           [] level = "mid" -> (a + b) \div 2
           [] level = "hi" -> b + 1)

\* random.randint(a, b): an integer in a..b, both ends included
random_randint(level, a, b) ==
    IntV(CASE level = "lo" -> a
           [] level = "mid" -> (a + b) \div 2
           [] level = "hi" -> b)

\* random.choice(seq)
random_choice(level, seq) ==
    StrV(seq[CASE level = "lo" -> 1
               [] level = "mid" -> (Len(seq) + 1) \div 2
               [] level = "hi" -> Len(seq)])

\* x > y for floats x = a.n/a.d and the literal 0.3
GreaterThan03(a) == a.n * 10 > 3 * a.d

\* line 44: is_attack = random.random() > 0.3
IsAttackDraw(tape) == GreaterThan03(random_random(Draw(tape, 0)))

\* lines 46-89: one row, 42 values in the order of KDD_COLUMNS
GenRow(tape) ==
    LET L(i) == Draw(tape, i)
    IN << random_randint(L(1), 0, 1000),          \* duration
          random_choice(L(2), PROTOCOLS),         \* protocol_type
          random_choice(L(3), SERVICES),          \* service
          random_choice(L(4), FLAGS),             \* flag
          random_randint(L(5), 0, 50000),         \* src_bytes
          random_randint(L(6), 0, 50000),         \* dst_bytes
          IntV(0),                                \* land
          IntV(0),                                \* wrong_fragment
          IntV(0),                                \* urgent
          random_randint(L(7), 0, 10),            \* hot
          random_randint(L(8), 0, 5),             \* num_failed_logins
          random_randint(L(9), 0, 1),             \* logged_in
          random_randint(L(10), 0, 10),           \* num_compromised
          random_randint(L(11), 0, 1),            \* root_shell
          random_randint(L(12), 0, 1),            \* su_attempted
          random_randint(L(13), 0, 10),           \* num_root
          random_randint(L(14), 0, 5),            \* num_file_creations
          random_randint(L(15), 0, 2),            \* num_shells
          random_randint(L(16), 0, 2),            \* num_access_files
          IntV(0),                                \* num_outbound_cmds
          IntV(0),                                \* is_host_login
          random_randint(L(17), 0, 1),            \* is_guest_login
          random_randint(L(18), 1, 100),          \* count
          random_randint(L(19), 1, 100),          \* srv_count
          random_random(L(20)),                   \* serror_rate
          random_random(L(21)),                   \* srv_serror_rate
          random_random(L(22)),                   \* rerror_rate
          random_random(L(23)),                   \* srv_rerror_rate
          random_random(L(24)),                   \* same_srv_rate
          random_random(L(25)),                   \* diff_srv_rate
          random_random(L(26)),                   \* srv_diff_host_rate
          random_randint(L(27), 1, 255),          \* dst_host_count
          random_randint(L(28), 1, 255),          \* dst_host_srv_count
          random_random(L(29)),                   \* dst_host_same_srv_rate
          random_random(L(30)),                   \* dst_host_diff_srv_rate
          random_random(L(31)),                   \* dst_host_same_src_port_rate
          random_random(L(32)),                   \* dst_host_srv_diff_host_rate
          random_random(L(33)),                   \* dst_host_serror_rate
          random_random(L(34)),                   \* dst_host_srv_serror_rate
          random_random(L(35)),                   \* dst_host_rerror_rate
          random_random(L(36)),                   \* dst_host_srv_rerror_rate
          IF IsAttackDraw(tape)
          THEN random_choice(L(37), Tail(ATTACKS))
          ELSE StrV(ATTACKS[1]) >>                \* attack_type

----------------------------------------------------------------------------
(* Writing the CSV: DataFrame.to_csv(FILE_NAME, index=False, header=False) *)

Digits == << "0", "1", "2", "3", "4", "5", "6", "7", "8", "9" >>

RECURSIVE DecimalDigits(_)
DecimalDigits(n) ==
    IF n < 10 THEN << Digits[n + 1] >>
    ELSE DecimalDigits(n \div 10) \o << Digits[(n % 10) + 1] >>

\* str(int)
IntText(i) == IF i < 0 THEN << "-" >> \o DecimalDigits(-i) ELSE DecimalDigits(i)

RECURSIVE FracDigits(_, _)
FracDigits(frac, d) ==
    IF frac = 0 THEN << >>
    ELSE << Digits[((frac * 10) \div d) + 1] >> \o FracDigits((frac * 10) % d, d)

\* repr(float) of a non-negative float with a finite decimal expansion:
\* the integer part, a point, and the fraction digits without trailing zeros
\* (at least one digit)
FloatText(v) ==
    DecimalDigits(v.n \div v.d) \o << "." >> \o
    (IF v.n % v.d = 0 THEN << "0" >> ELSE FracDigits(v.n % v.d, v.d))

\* one cell of the file; a string without delimiter or quote is written as is,
\* a missing value as the empty cell
FormatCell(v) ==
    CASE v.t = "int" -> IntText(v.n)
      [] v.t = "float" -> FloatText(v)
      [] v.t = "str" -> << v.s >>
      [] v.t = "nan" -> << >>

FormatRow(row) == [i \in 1..Len(row) |-> FormatCell(row[i])]

\* the lines to_csv writes: the header line when asked for, then one per row
ToCsv(table, header) ==
    (IF header THEN << [i \in 1..Len(table.columns) |-> << table.columns[i] >>] >>
     ELSE << >>)
    \o [j \in 1..Len(table.rows) |-> FormatRow(table.rows[j])]

\* to_csv without header=False
CsvLinesWithHeader(table) == ToCsv(table, TRUE)

\* line 96: df.to_csv(FILE_NAME, index=False, header=False)
CsvLines(table) == ToCsv(table, FALSE)

----------------------------------------------------------------------------
(* Reading the CSV: pd.read_csv(FILE_NAME, header=None), the C parser:      *)
(* blank lines are skipped, the first line sets the number of columns, a    *)
(* later line with more fields is an error and one with fewer is padded     *)
(* with missing values; a column of integer literals is int64, a column of  *)
(* numeric literals and missing values is float64, any other column keeps   *)
(* its cells as strings (missing cells as NaN).                             *)

IsDigit(c) == \E i \in 1..10 : Digits[i] = c
DigitVal(c) == (CHOOSE i \in 1..10 : Digits[i] = c) - 1

\* the single-token default na_values of read_csv; the empty cell is missing too
NA_VALUES == {"#N/A", "N/A", "NA", "NULL", "NaN", "n/a", "nan", "null", "<NA>"}

IsNA(cell) == cell = << >> \/ (Len(cell) = 1 /\ cell[1] \in NA_VALUES)

Unsigned(cell) == IF Len(cell) >= 1 /\ cell[1] = "-" THEN Tail(cell) ELSE cell

IsIntText(cell) ==
    LET u == Unsigned(cell)
    IN Len(u) >= 1 /\ \A i \in 1..Len(u) : IsDigit(u[i])

IsFloatText(cell) ==
    LET u == Unsigned(cell)
        points == {i \in 1..Len(u) : u[i] = "."}
    IN /\ Len(u) >= 2
       /\ Cardinality(points) = 1
       /\ \A i \in 1..Len(u) : i \in points \/ IsDigit(u[i])

RECURSIVE DigitsValue(_)
DigitsValue(s) ==
    IF s = << >> THEN 0
    ELSE DigitsValue(SubSeq(s, 1, Len(s) - 1)) * 10 + DigitVal(s[Len(s)])

Negate(v) == [v EXCEPT !.n = -@]

ParseInt(cell) ==
    IF cell[1] = "-" THEN Negate(IntV(DigitsValue(Tail(cell)))) ELSE IntV(DigitsValue(cell))

ParseFloat(cell) ==
    LET u == Unsigned(cell)
        p == IF IsIntText(cell) THEN Len(u) + 1 ELSE CHOOSE i \in 1..Len(u) : u[i] = "."
        whole == SubSeq(u, 1, p - 1)
        frac == SubSeq(u, p + 1, Len(u))
        v == FloatV(DigitsValue(whole) * Pow(10, Len(frac)) + DigitsValue(frac),
                    Pow(10, Len(frac)))
    IN IF cell[1] = "-" THEN Negate(v) ELSE v

RECURSIVE Join(_)
Join(cell) == IF cell = << >> THEN "" ELSE Head(cell) \o Join(Tail(cell))

\* the dtype read_csv infers for a column from its cells
ColumnKind(cells) ==
    IF \A j \in 1..Len(cells) : IsIntText(cells[j]) THEN "int"
    ELSE IF \A j \in 1..Len(cells) :
                IsIntText(cells[j]) \/ IsFloatText(cells[j]) \/ IsNA(cells[j])
         THEN "float"
         ELSE "object"

ParseCell(kind, cell) ==
    CASE kind = "int" -> ParseInt(cell)
      [] kind = "float" -> (IF IsNA(cell) THEN NaN ELSE ParseFloat(cell))
      [] kind = "object" -> (IF IsNA(cell) THEN NaN ELSE StrV(Join(cell)))

\* a line without text
IsBlankLine(line) == line = << >> \/ line = << << >> >>
NotBlankLine(line) == ~IsBlankLine(line)

\* a read_csv that drops the fields a line has beyond the first line's
ReadCsvDroppingFields(f) ==
    LET lines == SelectSeq(f.lines, NotBlankLine)
    IN IF ~f.exists THEN [err |-> "FileNotFoundError", table |-> NoTable]
       ELSE IF lines = << >> THEN [err |-> "EmptyDataError", table |-> NoTable]
       ELSE LET width == Len(lines[1])
                padded == [j \in 1..Len(lines) |->
                             [i \in 1..width |->
                                 IF i <= Len(lines[j]) THEN lines[j][i] ELSE << >>]]
                kind == [i \in 1..width |->
                           ColumnKind([j \in 1..Len(lines) |-> padded[j][i]])]
            IN [err |-> "None",
                table |-> [columns |-> [i \in 1..width |-> i - 1],
                           rows |-> [j \in 1..Len(lines) |->
                                       [i \in 1..width |->
                                           ParseCell(kind[i], padded[j][i])]]]]

\* pd.read_csv(FILE_NAME, header=None): [err, table]; the columns are named
\* 0 .. width-1
ReadCsv(f) ==
    LET lines == SelectSeq(f.lines, NotBlankLine)
    IN IF ~f.exists THEN [err |-> "FileNotFoundError", table |-> NoTable]
       ELSE IF lines = << >> THEN [err |-> "EmptyDataError", table |-> NoTable]
       ELSE LET width == Len(lines[1])
                padded == [j \in 1..Len(lines) |->
                             [i \in 1..width |->
                                 IF i <= Len(lines[j]) THEN lines[j][i] ELSE << >>]]
                kind == [i \in 1..width |->
                           ColumnKind([j \in 1..Len(lines) |-> padded[j][i]])]
            IN IF \E j \in 1..Len(lines) : Len(lines[j]) > width
               THEN [err |-> "ParserError", table |-> NoTable]
               ELSE [err |-> "None",
                     table |-> [columns |-> [i \in 1..width |-> i - 1],
                                rows |-> [j \in 1..Len(lines) |->
                                            [i \in 1..width |->
                                                ParseCell(kind[i], padded[j][i])]]]]

----------------------------------------------------------------------------
(* DataFrame operations *)

Max(S) == CHOOSE x \in S : \A y \in S : y <= x
Min(S) == CHOOSE x \in S : \A y \in S : x <= y

\* pd.DataFrame(data, columns=columns): [err, table]; short rows are padded
\* with missing values, and the width must be the number of names
MakeDataFrame(rows, columns) ==
    LET width == IF rows = << >> THEN Len(columns)
                 ELSE Max({Len(rows[j]) : j \in 1..Len(rows)})
    IN IF width # Len(columns) THEN [err |-> "ValueError", table |-> NoTable]
       ELSE [err |-> "None",
             table |-> [columns |-> columns,
                        rows |-> [j \in 1..Len(rows) |->
                                    [i \in 1..width |->
                                        IF i <= Len(rows[j]) THEN rows[j][i] ELSE NaN]]]]

\* df.columns = names: [err, table]
SetColumns(table, names) ==
    IF Len(names) # Len(table.columns) THEN [err |-> "ValueError", table |-> NoTable]
    ELSE [err |-> "None", table |-> [table EXCEPT !.columns = names]]

\* df[name] = values: replaces the column when it exists, appends it otherwise
SetColumn(table, name, values) ==
    LET k == ColIndex(table.columns, name)
    IN IF k # 0
       THEN [table EXCEPT !.rows = [j \in 1..Len(table.rows) |->
                                       [table.rows[j] EXCEPT ![k] = values[j]]]]
       ELSE [columns |-> Append(table.columns, name),
             rows |-> [j \in 1..Len(table.rows) |-> Append(table.rows[j], values[j])]]

\* df[name] as a sequence
Column(table, name) == [j \in 1..Len(table.rows) |-> Field(table, table.rows[j], name)]

\* a comparison that ignores case
CategoryIgnoringCase(x) ==
    IF x \in {StrV("normal."), StrV("Normal."), StrV("NORMAL.")}
    THEN StrV("Normal") ELSE StrV("Attack")

\* lines 114-116: lambda x: 'Normal' if x == 'normal.' else 'Attack'
Category(x) == IF x = StrV(ATTACKS[1]) THEN StrV("Normal") ELSE StrV("Attack")

\* lines 104-121 without the prints: [err, table]
LoadAndPrepare(f) ==
    LET read == ReadCsv(f)
        named == SetColumns(read.table, KDD_COLUMNS)
        labels == Column(named.table, "attack_type")
    IN IF read.err # "None" THEN read
       ELSE IF named.err # "None" THEN named
       ELSE [err |-> "None",
             table |-> SetColumn(named.table, "attack_category",
                                 [j \in 1..Len(labels) |-> Category(labels[j])])]

----------------------------------------------------------------------------
(* The two views *)

\* Series.value_counts() before its sort: one entry per distinct value that is
\* not missing (dropna), with its count and the position where it first occurs
ValueCounts(values) ==
    LET present == {values[j] : j \in 1..Len(values)} \ {NaN}
    IN {[key |-> l,
         count |-> Cardinality({j \in 1..Len(values) : values[j] = l}),
         first |-> Min({j \in 1..Len(values) : values[j] = l})] : l \in present}

RECURSIVE Orderings(_)
Orderings(S) ==
    IF S = {} THEN {<< >>}
    ELSE UNION {{<< x >> \o p : p \in Orderings(S \ {x})} : x \in S}

\* Series.sort_values(ascending=False) with the default kind='quicksort',
\* which is not a stable sort: every order that is descending by count is a
\* possible result (entries with equal counts come in any order)
RECURSIVE SortValuesDescending(_)
SortValuesDescending(S) ==
    IF S = {} THEN {<< >>}
    ELSE LET m == Max({e.count : e \in S})
             G == {e \in S : e.count = m}
         IN {p \o r : p \in Orderings(G), r \in SortValuesDescending(S \ G)}

\* no head at all
SeriesWhole(series, n) == series

\* Series.head(n)
SeriesHead(series, n) == SubSeq(series, 1, IF Len(series) < n THEN Len(series) ELSE n)

Entries(series) == [i \in 1..Len(series) |-> [key |-> series[i].key, count |-> series[i].count]]

\* line 127: the possible values of top_attacks
TopAttacks(table) ==
    LET category == ColIndex(table.columns, "attack_category")
        type == ColIndex(table.columns, "attack_type")
        IsAtk(row) == row[category] = StrV("Attack")
        attacks == SelectSeq(table.rows, IsAtk)
        labels == [j \in 1..Len(attacks) |-> attacks[j][type]]
    IN {Entries(SeriesHead(sorted, TopN)) : sorted \in SortValuesDescending(ValueCounts(labels))}

\* positions counted from 1
RangeFromOne(table) == [j \in 1..Len(table.rows) |-> IntV(j)]

\* range(len(df)) as a column
RangeLen(table) == [j \in 1..Len(table.rows) |-> IntV(j - 1)]

\* the table cut down to its attack rows before the time column is added
AddTimeToAttacks(table) ==
    LET category == ColIndex(table.columns, "attack_category")
        IsAtk(row) == row[category] = StrV("Attack")
        kept == [table EXCEPT !.rows = SelectSeq(table.rows, IsAtk)]
    IN SetColumn(kept, "time", RangeLen(kept))

\* line 146: df['time'] = range(len(df))
AddTime(table) == SetColumn(table, "time", RangeLen(table))

RECURSIVE Ascending(_)
Ascending(S) == IF S = {} THEN << >> ELSE << Min(S) >> \o Ascending(S \ {Min(S)})

\* line 152: df[df['attack_category'] == 'Attack'].groupby(df['time'] // interval_size).size()
\* one entry per group that has a row, in ascending order of the group key
AttackTrend(table) ==
    LET category == ColIndex(table.columns, "attack_category")
        time == ColIndex(table.columns, "time")
        attacks == {j \in 1..Len(table.rows) : table.rows[j][category] = StrV("Attack")}
        keyOf(j) == table.rows[j][time].n \div interval_size
        keys == Ascending({keyOf(j) : j \in attacks})
    IN [i \in 1..Len(keys) |->
          [key |-> IntV(keys[i]),
           count |-> Cardinality({j \in attacks : keyOf(j) = keys[i]})]]

----------------------------------------------------------------------------
(* The run: __main__, lines 168-191 *)

Raise(e, stage) ==
    /\ err' = e
    /\ pc' = "except"
    /\ ran' = Append(ran, stage)

\* line 171 and line 38: generate_synthetic_data(NUM_ROWS) is entered
StartGenerate ==
    /\ pc = "start"
    /\ pc' = "gen_loop"
    /\ ran' = Append(ran, "generate")
    /\ log' = Append(log, "Generating rows of synthetic data...")
    /\ UNCHANGED << num_rows, data, file, file_before, df, top_attacks, attack_trend,
                    figures, err, fault, calls >>

\* lines 42-90: one iteration of the loop
GenerateRow ==
    /\ pc = "gen_loop"
    /\ Len(data) < num_rows
    /\ \E tape \in Tapes : data' = Append(data, GenRow(tape))
    /\ UNCHANGED << pc, num_rows, file, file_before, df, top_attacks, attack_trend,
                    figures, log, err, fault, ran, calls >>

\* lines 93-98: the DataFrame is built and written
SaveData ==
    /\ pc = "gen_loop"
    /\ Len(data) = num_rows
    /\ LET made == MakeDataFrame(data, KDD_COLUMNS)
       IN IF made.err # "None"
          THEN /\ err' = made.err
               /\ pc' = "except"
               /\ UNCHANGED << file, log >>
          ELSE /\ file' = [exists |-> TRUE, lines |-> CsvLines(made.table)]
               /\ log' = Append(log, "Data saved")
               /\ pc' = "load"
               /\ err' = err
    /\ UNCHANGED << num_rows, data, file_before, df, top_attacks, attack_trend,
                    figures, fault, ran, calls >>

\* line 96 when the file system fails: to_csv opens the file for writing, which
\* empties it, writes the lines in order and closes it; the OSError comes
\* before the file is opened (k = -1) or after k lines
SaveDataFails ==
    /\ pc = "gen_loop"
    /\ Len(data) = num_rows
    /\ LET made == MakeDataFrame(data, KDD_COLUMNS)
           lines == CsvLines(made.table)
       IN /\ made.err = "None"
          /\ \E k \in -1..Len(lines) :
                file' = IF k = -1 THEN file
                        ELSE [exists |-> TRUE, lines |-> SubSeq(lines, 1, k)]
    /\ err' = "OSError"
    /\ fault' = TRUE
    /\ pc' = "except"
    /\ UNCHANGED << num_rows, data, file_before, df, top_attacks, attack_trend,
                    figures, log, ran, calls >>

\* line 174: load_and_prepare_data(), lines 104-121
LoadData ==
    /\ pc = "load"
    /\ LET loaded == LoadAndPrepare(file)
       IN IF loaded.err # "None"
          THEN /\ Raise(loaded.err, "load")
               /\ UNCHANGED << df, log >>
          ELSE /\ df' = loaded.table
               /\ log' = log \o << "Initial Data Inspection (Head):", "Dataset size",
                                   "Attack Category Distribution:" >>
               /\ pc' = "top"
               /\ ran' = Append(ran, "load")
               /\ err' = err
    /\ UNCHANGED << num_rows, data, file, file_before, top_attacks, attack_trend,
                    figures, fault, calls >>

\* line 104 when the file system fails
LoadDataFails ==
    /\ pc = "load"
    /\ Raise("OSError", "load")
    /\ fault' = TRUE
    /\ UNCHANGED << num_rows, data, file, file_before, df, top_attacks, attack_trend,
                    figures, log, calls >>

\* plot_top_attacks(df), lines 124-140
plot_top_attacks ==
    /\ \E top \in TopAttacks(df) :
          /\ top_attacks' = top
          /\ IF top = << >>
             THEN /\ log' = Append(log, "No attacks found to plot top 10.")
                  /\ figures' = figures
             ELSE /\ figures' = Append(figures, [kind |-> "bar", series |-> top])
                  /\ log' = log
    /\ UNCHANGED << num_rows, data, file, file_before, df, attack_trend, err, fault >>

\* plot_attack_trend(df), lines 142-164
plot_attack_trend ==
    /\ df' = AddTime(df)
    /\ attack_trend' = AttackTrend(df')
    /\ IF attack_trend' = << >>
       THEN /\ log' = Append(log, "No attack trend to plot.")
            /\ figures' = figures
       ELSE /\ figures' = Append(figures, [kind |-> "line", series |-> attack_trend'])
            /\ log' = log
    /\ UNCHANGED << num_rows, data, file, file_before, top_attacks, err, fault >>

\* line 177
PlotTop ==
    /\ pc = "top"
    /\ plot_top_attacks
    /\ pc' = "trend"
    /\ ran' = Append(ran, "top")
    /\ UNCHANGED calls

\* lines 133-140 when drawing the chart raises
PlotTopFails ==
    /\ pc = "top"
    /\ \E top \in TopAttacks(df) : top # << >> /\ top_attacks' = top
    /\ Raise("RuntimeError", "top")
    /\ fault' = TRUE
    /\ UNCHANGED << num_rows, data, file, file_before, df, attack_trend, figures,
                    log, calls >>

\* line 178
PlotTrend ==
    /\ pc = "trend"
    /\ plot_attack_trend
    /\ pc' = "complete"
    /\ ran' = Append(ran, "trend")
    /\ UNCHANGED calls

\* lines 158-164 when drawing the chart raises
PlotTrendFails ==
    /\ pc = "trend"
    /\ df' = AddTime(df)
    /\ attack_trend' = AttackTrend(df')
    /\ attack_trend' # << >>
    /\ Raise("RuntimeError", "trend")
    /\ fault' = TRUE
    /\ UNCHANGED << num_rows, data, file, file_before, top_attacks, figures, log, calls >>

\* line 180
Complete ==
    /\ pc = "complete"
    /\ log' = Append(log, "Analysis complete. Two plots have been generated.")
    /\ pc' = "finally"
    /\ UNCHANGED << num_rows, data, file, file_before, df, top_attacks, attack_trend,
                    figures, err, fault, ran, calls >>

\* lines 182-184: except Exception as e
HandleException ==
    /\ pc = "except"
    /\ log' = log \o << "An error occurred during execution: " \o err,
                        "Please ensure you have pandas, matplotlib, and seaborn installed" >>
    /\ pc' = "finally"
    /\ UNCHANGED << num_rows, data, file, file_before, df, top_attacks, attack_trend,
                    figures, err, fault, ran, calls >>

\* the clean-up the comment of line 190 describes: os.remove(FILE_NAME)
RemoveFile(f) == NoFile

\* lines 186-191: the finally block keeps the file
CleanUp(f) == f

Finally ==
    /\ pc = "finally"
    /\ file' = CleanUp(file)
    /\ pc' = "done"
    /\ UNCHANGED << num_rows, data, file_before, df, top_attacks, attack_trend,
                    figures, log, err, fault, ran, calls >>

\* a file left by an earlier run
OldFile == [exists |-> TRUE, lines |-> << FormatRow(GenRow("mid")) >>]

Init ==
    /\ pc = "start"
    /\ num_rows \in 0..MaxRows
    /\ data = << >>
    /\ file_before \in {NoFile, OldFile}
    /\ file = file_before
    /\ df = NoTable
    /\ top_attacks = << >>
    /\ attack_trend = << >>
    /\ figures = << >>
    /\ log = << >>
    /\ err = "None"
    /\ fault = FALSE
    /\ ran = << >>
    /\ calls = 0

Next ==
    \/ StartGenerate
    \/ GenerateRow
    \/ SaveData
    \/ SaveDataFails
    \/ LoadData
    \/ LoadDataFails
    \/ PlotTop
    \/ PlotTopFails
    \/ PlotTrend
    \/ PlotTrendFails
    \/ Complete
    \/ HandleException
    \/ Finally

Spec == Init /\ [][Next]_vars

----------------------------------------------------------------------------
(* load_and_prepare_data() on a file that some other program wrote, followed *)
(* by the rest of the run                                                    *)

GoodLine == FormatRow(GenRow("lo"))

WithCell(line, i, cell) == [line EXCEPT ![i] = cell]

TestLabels == {"normal.", "Normal.", "NORMAL.", "xnormal.", "normal", "smurf."}

TestLines ==
    {WithCell(GoodLine, 42, << l >>) : l \in TestLabels}
    \cup { SubSeq(GoodLine, 1, 41),                     \* one field short
           GoodLine \o << << "0" >> >>,                 \* one field too many
           WithCell(GoodLine, 1, << "abc" >>),          \* text as duration
           WithCell(GoodLine, 1, << "0", ".", "5" >>),  \* a float as duration
           WithCell(GoodLine, 25, << "x" >>),           \* text as serror_rate
           WithCell(GoodLine, 42, << >>) }              \* no attack_type

RECURSIVE SeqsUpTo(_, _)
\* the sequences over S of length at most n
SeqsUpTo(S, n) ==
    IF n = 0 THEN {<< >>}
    ELSE LET shorter == SeqsUpTo(S, n - 1)
         IN shorter \cup {Append(q, x) : q \in {r \in shorter : Len(r) = n - 1}, x \in S}

\* the files of at most n lines, and no file at all
TestFiles(n) ==
    {NoFile} \cup {[exists |-> TRUE, lines |-> ls] : ls \in SeqsUpTo(TestLines, n)}

InitLoad ==
    /\ pc = "load"
    /\ num_rows = 0
    /\ data = << >>
    /\ file \in TestFiles(MaxLines)
    /\ file_before = file
    /\ df = NoTable
    /\ top_attacks = << >>
    /\ attack_trend = << >>
    /\ figures = << >>
    /\ log = << >>
    /\ err = "None"
    /\ fault = FALSE
    /\ ran = << >>
    /\ calls = 0

NextLoad ==
    \/ LoadData
    \/ PlotTop
    \/ PlotTrend
    \/ Complete
    \/ HandleException
    \/ Finally

SpecLoad == InitLoad /\ [][NextLoad]_vars

----------------------------------------------------------------------------
(* The two views called on a loaded table, in any order                     *)

LoadedColumns == Append(KDD_COLUMNS, "attack_category")

\* a row of a loaded table with the given attack_type
BaseRow == GenRow("lo")
LoadedRow(label) == Append([BaseRow EXCEPT ![42] = label], Category(label))

TableOfLabels(labels) ==
    [columns |-> LoadedColumns,
     rows |-> [j \in 1..Len(labels) |-> LoadedRow(labels[j])]]

SmallLabels == {StrV("normal."), StrV("smurf."), StrV("neptune."), NaN}

\* attack labels of KDD Cup 99
LabelNames ==
    << "back.", "buffer_overflow.", "ftp_write.", "guess_passwd.", "imap.",
       "ipsweep.", "land.", "loadmodule.", "multihop.", "neptune.", "nmap.",
       "perl.", "phf.", "pod.", "portsweep.", "rootkit.", "satan.", "smurf.",
       "spy.", "teardrop.", "warezclient.", "warezmaster." >>

RECURSIVE ManyLabels(_)
\* m labels: the first once, the j-th of the others j - 1 times, so that only
\* the first two have equal counts
ManyLabels(m) ==
    IF m = 0 THEN << >>
    ELSE ManyLabels(m - 1) \o
         [i \in 1..(IF m = 1 THEN 1 ELSE m - 1) |-> StrV(LabelNames[m])]

\* a table of Len(pattern) intervals, each all attacks ("attack") or without
\* attack ("normal"); the last interval holds half an interval of rows
BlockLabels(pattern) ==
    LET n == Len(pattern) * interval_size - interval_size \div 2
    IN [j \in 1..n |->
          IF pattern[((j - 1) \div interval_size) + 1] = "attack"
          THEN StrV("smurf.") ELSE StrV("normal.")]

BlockPatterns == {"attack", "normal"}

InitViews ==
    /\ pc = "views"
    /\ num_rows = 0
    /\ data = << >>
    /\ file = NoFile
    /\ file_before = NoFile
    /\ \/ \E labels \in SeqsUpTo(SmallLabels, MaxRows) : df = TableOfLabels(labels)
       \/ \E m \in (MaxAttackTypes - 1)..MaxAttackTypes : df = TableOfLabels(ManyLabels(m))
       \/ \E pattern \in SeqsUpTo(BlockPatterns, MaxBlocks) \ {<< >>} :
             df = TableOfLabels(BlockLabels(pattern))
    /\ top_attacks = << >>
    /\ attack_trend = << >>
    /\ figures = << >>
    /\ log = << >>
    /\ err = "None"
    /\ fault = FALSE
    /\ ran = << >>
    /\ calls = 0

ViewTop ==
    /\ pc = "views"
    /\ calls < MaxCalls
    /\ plot_top_attacks
    /\ calls' = calls + 1
    /\ ran' = Append(ran, "top")
    /\ UNCHANGED pc

ViewTrend ==
    /\ pc = "views"
    /\ calls < MaxCalls
    /\ plot_attack_trend
    /\ calls' = calls + 1
    /\ ran' = Append(ran, "trend")
    /\ UNCHANGED pc

NextViews == ViewTop \/ ViewTrend

SpecViews == InitViews /\ [][NextViews]_vars

----------------------------------------------------------------------------
(* Properties of generate_synthetic_data, checked under Spec                *)

\* the value of a row of the generator under a schema name
V(row, name) == row[ColIndex(KDD_COLUMNS, name)]

InSeq(x, seq) == \E i \in 1..Len(seq) : seq[i] = x

IsIntIn(v, a, b) == v.t = "int" /\ a <= v.n /\ v.n <= b
IsRate(v) == v.t = "float" /\ 0 <= v.n /\ v.n < v.d /\ v.d > 0
IsOneOf(v, seq) == v.t = "str" /\ InSeq(v.s, seq)

RateFields ==
    {"serror_rate", "srv_serror_rate", "rerror_rate", "srv_rerror_rate",
     "same_srv_rate", "diff_srv_rate", "srv_diff_host_rate",
     "dst_host_same_srv_rate", "dst_host_diff_srv_rate",
     "dst_host_same_src_port_rate", "dst_host_srv_diff_host_rate",
     "dst_host_serror_rate", "dst_host_srv_serror_rate", "dst_host_rerror_rate",
     "dst_host_srv_rerror_rate"}

ZeroFields == {"land", "wrong_fragment", "urgent", "num_outbound_cmds", "is_host_login"}

\* the kind of value the schema name stands for
HasKindOf(v, name) ==
    CASE name = "protocol_type" -> IsOneOf(v, PROTOCOLS)
      [] name = "service" -> IsOneOf(v, SERVICES)
      [] name = "flag" -> IsOneOf(v, FLAGS)
      [] name = "attack_type" -> IsOneOf(v, ATTACKS)
      [] name \in RateFields -> v.t = "float"
      [] OTHER -> v.t = "int"

\* the value a cell of the file stands for, read on its own
CellValue(cell) == ParseCell(ColumnKind(<< cell >>), cell)

\* the line holds the 42 values of the row, in order
LineHolds(line, row) ==
    /\ Len(line) = 42
    /\ Len(row) = 42
    /\ \A i \in 1..42 : CellValue(line[i]) = row[i]

\* generate_synthetic_data has returned
GenerateReturned == InSeq("Data saved", log)

\* C1: generate_synthetic_data(N) produces exactly N records of 42 values, the
\* i-th value being the one generated for the i-th name of KDD_COLUMNS, and the
\* file holds those N records and no header line.
C1_GeneratedRecords ==
    GenerateReturned =>
        /\ Len(data) = num_rows
        /\ \A j \in 1..Len(data) :
              /\ Len(data[j]) = 42
              /\ \A i \in 1..42 : HasKindOf(data[j][i], KDD_COLUMNS[i])
        /\ file.exists
        /\ Len(file.lines) = num_rows
        /\ \A j \in 1..num_rows : LineHolds(file.lines[j], data[j])

C1_Witness ==
    /\ pc = "done"
    /\ GenerateReturned
    /\ num_rows >= 2
    /\ Len(file.lines) = num_rows
    /\ V(data[1], "attack_type") # V(data[2], "attack_type")

\* C2: in every generated record the fifteen rate fields are in [0,1), the
\* bounded integer fields are within their inclusive ranges, and the five
\* constant fields are 0.
C2_FieldRanges ==
    \A j \in 1..Len(data) :
        LET r == data[j]
        IN /\ \A name \in RateFields : IsRate(V(r, name))
           /\ IsIntIn(V(r, "duration"), 0, 1000)
           /\ IsIntIn(V(r, "src_bytes"), 0, 50000)
           /\ IsIntIn(V(r, "dst_bytes"), 0, 50000)
           /\ IsIntIn(V(r, "hot"), 0, 10)
           /\ IsIntIn(V(r, "num_compromised"), 0, 10)
           /\ IsIntIn(V(r, "num_root"), 0, 10)
           /\ IsIntIn(V(r, "num_failed_logins"), 0, 5)
           /\ IsIntIn(V(r, "num_file_creations"), 0, 5)
           /\ IsIntIn(V(r, "logged_in"), 0, 1)
           /\ IsIntIn(V(r, "root_shell"), 0, 1)
           /\ IsIntIn(V(r, "su_attempted"), 0, 1)
           /\ IsIntIn(V(r, "is_guest_login"), 0, 1)
           /\ IsIntIn(V(r, "num_shells"), 0, 2)
           /\ IsIntIn(V(r, "num_access_files"), 0, 2)
           /\ IsIntIn(V(r, "count"), 1, 100)
           /\ IsIntIn(V(r, "srv_count"), 1, 100)
           /\ IsIntIn(V(r, "dst_host_count"), 1, 255)
           /\ IsIntIn(V(r, "dst_host_srv_count"), 1, 255)
           /\ \A name \in ZeroFields : V(r, name) = IntV(0)

C2_Witness ==
    /\ Len(data) >= 2
    /\ V(data[1], "duration") = IntV(1000)
    /\ V(data[1], "dst_host_count") = IntV(255)
    /\ V(data[1], "serror_rate").n = V(data[1], "serror_rate").d - 1
    /\ V(data[2], "duration") = IntV(0)
    /\ V(data[2], "count") = IntV(1)
    /\ V(data[2], "serror_rate").n = 0

\* C3: generate_synthetic_data(N) followed by load_and_prepare_data() yields a
\* table of exactly N rows, in the same order, whose 42 schema fields have the
\* generated values and whose first 42 column names are KDD_COLUMNS.
C3_RoundTrip ==
    (pc = "done" /\ GenerateReturned /\ ~fault) =>
        /\ df # NoTable
        /\ Len(df.rows) = num_rows
        /\ \A j \in 1..Len(df.rows) : SubSeq(df.rows[j], 1, 42) = data[j]
        /\ SubSeq(df.columns, 1, 42) = KDD_COLUMNS

\* C5: generating 0 rows gives a file without data rows, and the run on it
\* reaches both views, each reporting its notice, with no step raising.
C5_EmptyRun ==
    (pc = "done" /\ num_rows = 0 /\ ~fault) =>
        /\ file.exists
        /\ file.lines = << >>
        /\ err = "None"
        /\ InSeq("top", ran)
        /\ InSeq("trend", ran)
        /\ InSeq("No attacks found to plot top 10.", log)
        /\ InSeq("No attack trend to plot.", log)

----------------------------------------------------------------------------
(* Properties of the top-level error handling, checked under Spec           *)

ErrorLogged == InSeq("An error occurred during execution: " \o err, log)

\* the file holds the first lines, or all the lines, this run generated
WrittenUpTo(k) ==
    /\ file.exists
    /\ Len(file.lines) = k
    /\ k <= Len(data)
    /\ \A j \in 1..k : LineHolds(file.lines[j], data[j])

FullyWritten == Len(data) = num_rows /\ WrittenUpTo(num_rows)
PartlyWritten == Len(data) = num_rows /\ WrittenUpTo(Len(file.lines))

\* what holds of every step whatever the state of the file is: once an
\* exception is raised no stage runs and the run goes on to its end with the
\* message printed; only the write of the generate stage changes the file, and
\* no step removes it
FailureIsHandled ==
    /\ err # "None" =>
          /\ pc' \in {"finally", "done"}
          /\ ran' = ran
          /\ df' = df
          /\ figures' = figures
    /\ (err' # "None" /\ pc' = "done") => ErrorLogged'
    /\ file' # file => pc = "gen_loop"
    /\ file.exists => file'.exists

\* C8 as stated: a failure is caught, logged, stops the later stages, the run
\* ends normally, the file is as before the run or fully written, and a
\* written file is never deleted.
C8_Original ==
    [][FailureIsHandled /\ (file = file_before \/ FullyWritten)]_vars

\* C8 as amended: the same, the file being as before the run, fully written,
\* or holding only the first lines of this run when to_csv failed midway.
C8_Amended ==
    [][FailureIsHandled /\ (file = file_before \/ PartlyWritten)]_vars

C8_Witness ==
    /\ pc = "done"
    /\ err = "OSError"
    /\ ErrorLogged
    /\ ran = << "generate" >>
    /\ file # file_before
    /\ Len(file.lines) < num_rows


----------------------------------------------------------------------------
(* Properties of load_and_prepare_data, checked under SpecLoad              *)

LoadAttempted == InSeq("load", ran)

\* C4: attack_category is 'Normal' exactly when attack_type is the string
\* 'normal.' and 'Attack' for any other label, whatever the rest of the row
\* and the other rows hold.
C4_Category ==
    df # NoTable =>
        \A j \in 1..Len(df.rows) :
            LET label == Field(df, df.rows[j], "attack_type")
                category == Field(df, df.rows[j], "attack_category")
            IN /\ category = StrV("Normal") <=> label = StrV("normal.")
               /\ category # StrV("Normal") => category = StrV("Attack")

C4_Witness ==
    /\ Len(df.rows) = 2
    /\ Field(df, df.rows[1], "attack_type") = StrV("Normal.")
    /\ Field(df, df.rows[1], "attack_category") = StrV("Attack")
    /\ Field(df, df.rows[2], "attack_type") = StrV("normal.")
    /\ Field(df, df.rows[2], "attack_category") = StrV("Normal")

\* the lines of the file that hold text
TextLines == SelectSeq(file.lines, NotBlankLine)

NumericField(i) == KDD_COLUMNS[i] \notin {"protocol_type", "service", "flag", "attack_type"}

\* a numeric field of the schema holds text that is no number
TypeMismatch ==
    \E j \in 1..Len(TextLines) :
        \E i \in 1..42 :
            /\ i <= Len(TextLines[j])
            /\ NumericField(i)
            /\ TextLines[j][i] # << >>
            /\ ~IsIntText(TextLines[j][i])
            /\ ~IsFloatText(TextLines[j][i])

WidthMismatch == \E j \in 1..Len(TextLines) : Len(TextLines[j]) # 42

\* C9 as stated: the load fails with a parse error and returns no table
\* whenever a line is not 42 fields wide or a field has text of the wrong type.
C9_Original ==
    (LoadAttempted /\ (WidthMismatch \/ TypeMismatch)) =>
        (err = "ParserError" /\ df = NoTable)

\* the exception load_and_prepare_data ends with on the file
ExpectedLoadError ==
    IF ~file.exists THEN "FileNotFoundError"
    ELSE IF TextLines = << >> THEN "EmptyDataError"
    ELSE IF \E j \in 1..Len(TextLines) : Len(TextLines[j]) > Len(TextLines[1])
         THEN "ParserError"
    ELSE IF Len(TextLines[1]) # 42 THEN "ValueError"
    ELSE "None"

\* C9 as amended: the load fails, and returns no table, exactly when the file
\* is missing or empty, a line has more fields than the first line (the parse
\* error), or the first line is not 42 fields wide (the error of the column
\* assignment); otherwise it returns one row per line, lines shorter than the
\* first padded with missing values and text in a numeric field kept as text.
C9_Amended ==
    LoadAttempted =>
        /\ err = ExpectedLoadError
        /\ err # "None" => df = NoTable
        /\ err = "None" =>
              /\ Len(df.rows) = Len(TextLines)
              /\ \A j \in 1..Len(df.rows) : Len(df.rows[j]) = Len(df.columns)
              /\ \A j \in 1..Len(df.rows) :
                    Len(TextLines[j]) < 42 => Field(df, df.rows[j], "attack_type") = NaN
              /\ \A j \in 1..Len(df.rows) :
                    TextLines[j][1] = << "abc" >> =>
                        Field(df, df.rows[j], "duration") = StrV("abc")

C9_Witness ==
    /\ pc = "done"
    /\ err = "ParserError"
    /\ df = NoTable
    /\ Len(file.lines) = 2
    /\ Len(file.lines[1]) = 42
    /\ Len(file.lines[2]) = 43

----------------------------------------------------------------------------
(* Properties of the views, checked under SpecViews                         *)

TopCalled == InSeq("top", ran)
TrendCalled == InSeq("trend", ran)

\* the positions (from 1) of the rows of df with attack_category 'Attack'
AttackPositions ==
    LET category == ColIndex(df.columns, "attack_category")
    IN {j \in 1..Len(df.rows) : df.rows[j][category] = StrV("Attack")}

\* the attack_type of each row of df
LabelColumn ==
    LET type == ColIndex(df.columns, "attack_type")
    IN [j \in 1..Len(df.rows) |-> df.rows[j][type]]

Keys(series) == {series[i].key : i \in 1..Len(series)}

\* what C6 states apart from the order of equal counts
TopIsTopTen ==
    LET attacks == AttackPositions
        label == LabelColumn
        labels == {label[j] : j \in attacks} \ {NaN}
        countOf == [l \in labels |-> Cardinality({j \in attacks : label[j] = l})]
    IN /\ \A i \in 1..Len(top_attacks) :
             /\ top_attacks[i].key \in labels
             /\ top_attacks[i].count = countOf[top_attacks[i].key]
       /\ \A i, k \in 1..Len(top_attacks) :
             i < k => /\ top_attacks[i].key # top_attacks[k].key
                      /\ top_attacks[i].count >= top_attacks[k].count
       /\ Len(top_attacks) = (IF Cardinality(labels) < 10 THEN Cardinality(labels) ELSE 10)
       /\ \A l \in labels \ Keys(top_attacks) :
             \A i \in 1..Len(top_attacks) : countOf[l] <= top_attacks[i].count
       /\ attacks = {} => top_attacks = << >>
       /\ top_attacks = << >> =>
             /\ InSeq("No attacks found to plot top 10.", log)
             /\ \A f \in 1..Len(figures) : figures[f].kind # "bar"

\* equal counts keep the order in which their labels first occur
TiesInFirstSeenOrder ==
    LET attacks == AttackPositions
        label == LabelColumn
        labels == {label[j] : j \in attacks} \ {NaN}
        countOf == [l \in labels |-> Cardinality({j \in attacks : label[j] = l})]
        firstAt == [l \in labels |-> Min({j \in attacks : label[j] = l})]
    IN /\ \A i, k \in 1..Len(top_attacks) :
             (i < k /\ top_attacks[i].count = top_attacks[k].count)
                 => firstAt[top_attacks[i].key] < firstAt[top_attacks[k].key]
       /\ \A l \in labels \ Keys(top_attacks) :
             \A i \in 1..Len(top_attacks) :
                 countOf[l] = top_attacks[i].count => firstAt[top_attacks[i].key] < firstAt[l]

\* C6 as stated: the top-attack view counts the 'Attack' rows per attack_type,
\* keeps the 10 highest counts in descending order, equal counts in
\* first-encountered order, and is empty, with the notice and no chart, when
\* there is no 'Attack' row.
C6_Original == TopCalled => (TopIsTopTen /\ TiesInFirstSeenOrder)

\* C6 as amended: the same without an order among equal counts, the entries
\* being the attack_type values that are not missing.
C6_Amended == TopCalled => TopIsTopTen

C6_Witness ==
    /\ TopCalled
    /\ Cardinality({LabelColumn[j] : j \in AttackPositions}) > 10
    /\ Len(top_attacks) = 10
    /\ top_attacks[1].count > top_attacks[10].count

\* zero-based positions of the 'Attack' rows
AttackPos0 == {j - 1 : j \in AttackPositions}

\* C7: the trend view maps interval k to the number of 'Attack' rows at
\* zero-based positions p with p div 1000 = k, holds exactly the intervals
\* with such a row, in ascending order; 2500 rows with attacks exactly at
\* 0..999 and 2000..2499 give intervals 0 and 2 with 1000 and 500.
C7_Trend ==
    TrendCalled =>
        LET attacks == AttackPos0
            idx == {p \div 1000 : p \in attacks}
        IN /\ Keys(attack_trend) = {IntV(k) : k \in idx}
           /\ Len(attack_trend) = Cardinality(idx)
           /\ \A i \in 1..Len(attack_trend) :
                 /\ attack_trend[i].count >= 1
                 /\ attack_trend[i].count =
                       Cardinality({p \in attacks : p \div 1000 = attack_trend[i].key.n})
           /\ \A i, k \in 1..Len(attack_trend) :
                 i < k => attack_trend[i].key.n < attack_trend[k].key.n
           /\ (Len(df.rows) = 2500 /\ attacks = (0..999) \cup (2000..2499)) =>
                 attack_trend = << [key |-> IntV(0), count |-> 1000],
                                   [key |-> IntV(2), count |-> 500] >>

C7_Witness ==
    /\ TrendCalled
    /\ Len(df.rows) = 2500
    /\ AttackPos0 = (0..999) \cup (2000..2499)
    /\ Len(attack_trend) = 2
    /\ attack_trend[2] = [key |-> IntV(2), count |-> 500]

\* C10: a view call leaves the row count, the row order, the loaded columns
\* and every value of them unchanged; the only column added is the time
\* index, equal to the row position.
C10_ReadOnly ==
    [][ /\ Len(df'.rows) = Len(df.rows)
        /\ \A j \in 1..Len(df.rows) :
              /\ SubSeq(df'.rows[j], 1, 43) = SubSeq(df.rows[j], 1, 43)
              /\ Len(df'.rows[j]) = Len(df'.columns)
              /\ Len(df'.rows[j]) = 44 => df'.rows[j][44] = IntV(j - 1)
        /\ SubSeq(df'.columns, 1, 43) = LoadedColumns
        /\ df'.columns \in {df.columns, Append(LoadedColumns, "time")} ]_vars

C10_Witness ==
    /\ calls >= 2
    /\ TopCalled
    /\ TrendCalled
    /\ Len(df.rows) >= 2
    /\ df.columns = Append(LoadedColumns, "time")

====
